---- MODULE Spec2Model ----
(***************************************************************************)
(* The share-owner views of tapir.coop (src/tapir/coop/views/shareowner.py) *)
(* as a state machine over the relational store.  A request is served in    *)
(* steps: the handler's checks before the atomic block, one step per        *)
(* statement inside `with transaction.atomic()`, the commit, and whatever   *)
(* the handler does after the block.  Writes made inside the block are      *)
(* buffered in the request and reach the store at the commit; an exception  *)
(* inside the block discards them.                                          *)
(***************************************************************************)
EXTENDS Integers, Sequences, FiniteSets, TLC

VARIABLES db, seq, outbox, req, served, today

vars == <<db, seq, outbox, req, served, today>>

(* ------------------------------ bounds -------------------------------- *)

\* Requests served in one behaviour.
MaxRequests == 1

\* Largest num_shares a creation form is given.
MaxNumShares == 2

(* ----------------------------- constants ------------------------------ *)

\* Python None / SQL NULL of a nullable foreign key or date.
None == 0

\* tapir.coop.config.COOP_SHARE_PRICE
COOP_SHARE_PRICE == 100

Slots == {1, 2}

OwnerPks == {1, 2}

\* The pk arguments of a URL: the owners' pks and one that matches no row.
OwnerPkArgs == OwnerPks \cup {Cardinality(OwnerPks) + 1}

Dates == {1, 2}

Blank == <<>>

\* A caller is the set of permissions the request's user holds.
Callers == { {}, {"coop.manage", "accounts.manage"}, {"coop.admin"} }

Methods == {"GET", "POST"}

(* ------------------------------ the store ----------------------------- *)

Nil == [nil |-> TRUE]

IdleReq ==
    [op |-> "none", pc |-> "idle", caller |-> {}, pk |-> None,
     obj |-> Nil, old_frozen |-> Nil, data |-> Nil, n |-> 0, writes |-> <<>>,
     resp |-> "none"]

\* tapir.log.util.freeze_for_log of a ShareOwnership: the row's fields, keyed
\* by field name, with the primary key.
freeze_share(pk, row) ==
    [model |-> "ShareOwnership", id |-> pk, owner |-> row.owner,
     amount_paid |-> row.amount_paid, start_date |-> row.start_date,
     end_date |-> row.end_date]

\* tapir.log.util.freeze_for_log of a ShareOwner.
freeze_owner(pk, row) ==
    [model |-> "ShareOwner", id |-> pk, is_company |-> row.is_company,
     user |-> row.user, attended_welcome_session |-> row.attended_welcome_session,
     is_investing |-> row.is_investing, first_name |-> row.first_name,
     email |-> row.email]

\* One buffered write reaching the store.
Apply(d, w) ==
    CASE w.w = "insert_log" -> [d EXCEPT !.log = Append(@, w.entry)]
      [] w.w = "delete_share" ->
            [d EXCEPT !.shares = [p \in (DOMAIN @) \ {w.pk} |-> @[p]]]
      [] w.w = "put_share" ->
            [d EXCEPT !.shares = [p \in (DOMAIN @) \cup {w.pk} |->
                                     IF p = w.pk THEN w.row ELSE @[p]]]
      [] w.w = "insert_recap" -> [d EXCEPT !.recaps = Append(@, w.row)]
      [] w.w = "put_owner" ->
            [d EXCEPT !.owners = [p \in (DOMAIN @) \cup {w.pk} |->
                                     IF p = w.pk THEN w.row ELSE @[p]]]
      [] w.w = "put_user" ->
            [d EXCEPT !.users = [p \in (DOMAIN @) \cup {w.pk} |->
                                    IF p = w.pk THEN w.row ELSE @[p]]]
      [] w.w = "rekey_logs" ->
            [d EXCEPT !.log = [i \in DOMAIN @ |->
                                  IF @[i].share_owner = w.share_owner
                                  THEN [@[i] EXCEPT !.user = w.user,
                                                    !.share_owner = None]
                                  ELSE @[i]]]

RECURSIVE ApplyAll(_, _)
ApplyAll(d, ws) ==
    IF ws = <<>> THEN d ELSE ApplyAll(Apply(d, Head(ws)), Tail(ws))

\* What a query made by request r sees: the committed store and r's own writes.
View(r) == ApplyAll(db, req[r].writes)

(* ---------------------------- initial store --------------------------- *)

Person ==
    [is_company |-> FALSE, user |-> None, attended_welcome_session |-> FALSE,
     is_investing |-> FALSE, first_name |-> <<"a">>, email |-> <<"e">>]

Company ==
    [is_company |-> TRUE, user |-> None, attended_welcome_session |-> FALSE,
     is_investing |-> TRUE, first_name |-> Blank, email |-> <<"c">>]

Linked ==
    [is_company |-> FALSE, user |-> 1, attended_welcome_session |-> TRUE,
     is_investing |-> FALSE, first_name |-> Blank, email |-> Blank]

InitStores ==
    { [owners |-> (1 :> Person) @@ (2 :> o2),
       shares |-> (1 :> [owner |-> 1, amount_paid |-> 0, start_date |-> 1,
                         end_date |-> None]),
       users  |-> IF o2.user = None THEN << >>
                  ELSE (1 :> [username |-> "u1", first_name |-> <<"b">>,
                              email |-> <<"f">>]),
       log    |-> << >>,
       recaps |-> << >>] : o2 \in {Company, Linked} }

Init ==
    /\ db \in InitStores
    /\ seq = [share |-> 1, user |-> Cardinality(DOMAIN db.users)]
    /\ outbox = << >>
    /\ req = [r \in Slots |-> IdleReq]
    /\ served = 0
    /\ today = CHOOSE d \in Dates : \A e \in Dates : e <= d

(* --------------------------- request plumbing ------------------------- *)

\* The handler answers without entering an atomic block.
Respond(r, op, caller, pk, resp) ==
    req' = [req EXCEPT ![r] = [IdleReq EXCEPT !.op = op, !.pc = "done",
                                              !.caller = caller, !.pk = pk,
                                              !.resp = resp]]

\* The handler passes its checks and goes on at `label` with its locals.
Enter(r, op, caller, pk, label, obj, old_frozen, data) ==
    req' = [req EXCEPT ![r] = [IdleReq EXCEPT !.op = op, !.pc = label,
                                              !.caller = caller, !.pk = pk,
                                              !.obj = obj,
                                              !.old_frozen = old_frozen,
                                              !.data = data]]

Goto(r, label) == req' = [req EXCEPT ![r].pc = label]

\* A statement inside the atomic block buffers a write and moves on.
Write(r, w, label) ==
    req' = [req EXCEPT ![r].writes = Append(@, w), ![r].pc = label]

\* The program points inside an atomic block.
InAtomic ==
    {"delete_log", "delete_delete", "delete_commit",
     "update_save", "update_log", "update_commit",
     "create_log", "create_shares", "create_recap", "create_commit",
     "owner_save", "owner_log", "owner_commit",
     "mark_save", "mark_log", "mark_commit",
     "grant_user", "grant_owner", "grant_rekey", "grant_email", "grant_commit"}

\* Leaving the atomic block: the buffered writes reach the store together.
Commit(r, label, after, resp) ==
    /\ req[r].pc = label
    /\ db' = ApplyAll(db, req[r].writes)
    /\ req' = [req EXCEPT ![r].writes = <<>>, ![r].pc = after, ![r].resp = resp]
    /\ UNCHANGED <<seq, outbox, served, today>>

\* An exception inside the atomic block: the block's writes are rolled back
\* and the request ends with a server error.
Rollback(r) ==
    /\ req[r].pc \in InAtomic
    /\ req' = [req EXCEPT ![r].writes = <<>>, ![r].pc = "done", ![r].resp = "500"]
    /\ UNCHANGED <<db, seq, outbox, served, today>>

\* The response is sent and the worker takes the next request.
Return(r) ==
    /\ req[r].pc = "done"
    /\ req' = [req EXCEPT ![r] = IdleReq]
    /\ UNCHANGED <<db, seq, outbox, served, today>>

CanReceive(r) == req[r].pc = "idle" /\ served < MaxRequests

(* ------------------------ share_ownership_delete ---------------------- *)

share_ownership_delete(r, caller, method, pk) ==
    /\ CanReceive(r)
    /\ served' = served + 1
    /\ IF method # "POST"
       THEN Respond(r, "share_ownership_delete", caller, pk, "405")
       ELSE IF "coop.admin" \notin caller
       THEN Respond(r, "share_ownership_delete", caller, pk, "denied")
       ELSE IF pk \notin DOMAIN db.shares
       THEN Respond(r, "share_ownership_delete", caller, pk, "404")
       ELSE Enter(r, "share_ownership_delete", caller, pk, "delete_log",
                  db.shares[pk], Nil, Nil)
    /\ UNCHANGED <<db, seq, outbox, today>>

\* A faulty variant: the removal goes unlogged.
share_ownership_delete_log_skipped(r) ==
    /\ req[r].pc = "delete_log"
    /\ Goto(r, "delete_delete")
    /\ UNCHANGED <<db, seq, outbox, served, today>>

share_ownership_delete_log(r) ==
    /\ req[r].pc = "delete_log"
    /\ Write(r, [w |-> "insert_log",
                 entry |-> [kind |-> "DeleteShareOwnershipLogEntry",
                            actor |-> req[r].caller,
                            share_owner |-> req[r].obj.owner, user |-> None,
                            values |-> freeze_share(req[r].pk, req[r].obj)]],
             "delete_delete")
    /\ UNCHANGED <<db, seq, outbox, served, today>>

share_ownership_delete_delete(r) ==
    /\ req[r].pc = "delete_delete"
    /\ Write(r, [w |-> "delete_share", pk |-> req[r].pk], "delete_commit")
    /\ UNCHANGED <<db, seq, outbox, served, today>>

share_ownership_delete_commit(r) ==
    Commit(r, "delete_commit", "done", "redirect")

(* ---------------------- ShareOwnershipUpdateView ----------------------- *)

\* The fields ShareOwnershipForm edits.
ShareFormData ==
    [start_date : Dates, end_date : {None} \cup Dates,
     amount_paid : {0, COOP_SHARE_PRICE}]

\* The posted forms tried on a stored row: those that change at most one field.
ShareFormInputs(row) ==
    { d \in ShareFormData :
        Cardinality({ f \in {"start_date", "end_date", "amount_paid"} :
                        d[f] # row[f] }) <= 1 }

\* ShareOwnershipForm.is_valid: an end date does not precede the start date.
ShareOwnershipForm_is_valid(d) ==
    d.end_date = None \/ d.end_date >= d.start_date

\* form.instance after is_valid(): the loaded row with the form's fields.
ShareFormInstance(row, d) ==
    [row EXCEPT !.start_date = d.start_date, !.end_date = d.end_date,
                !.amount_paid = d.amount_paid]

\* dispatch, get_object (with UpdateViewLogMixin's old_object_frozen), post.
ShareOwnershipUpdateView(r, caller, method, pk, d) ==
    /\ CanReceive(r)
    /\ served' = served + 1
    /\ IF "coop.manage" \notin caller
       THEN Respond(r, "ShareOwnershipUpdateView", caller, pk, "denied")
       ELSE IF pk \notin DOMAIN db.shares
       THEN Respond(r, "ShareOwnershipUpdateView", caller, pk, "404")
       ELSE IF method = "GET"
       THEN Respond(r, "ShareOwnershipUpdateView", caller, pk, "form")
       ELSE IF ~ShareOwnershipForm_is_valid(d)
       THEN Respond(r, "ShareOwnershipUpdateView", caller, pk,
                    "form_invalid")
       ELSE Enter(r, "ShareOwnershipUpdateView", caller, pk, "update_save",
                  ShareFormInstance(db.shares[pk], d),
                  freeze_share(pk, db.shares[pk]), d)
    /\ UNCHANGED <<db, seq, outbox, today>>

\* form_valid: super().form_valid(form) saves form.instance.
ShareOwnershipUpdateView_form_valid_save(r) ==
    /\ req[r].pc = "update_save"
    /\ Write(r, [w |-> "put_share", pk |-> req[r].pk, row |-> req[r].obj],
             "update_log")
    /\ UNCHANGED <<db, seq, outbox, served, today>>

\* A faulty variant: the entry is written without comparing the snapshots.
ShareOwnershipUpdateView_form_valid_log_always(r) ==
    /\ req[r].pc = "update_log"
    /\ Write(r, [w |-> "insert_log",
                 entry |-> [kind |-> "UpdateShareOwnershipLogEntry",
                            actor |-> req[r].caller,
                            share_owner |-> req[r].obj.owner, user |-> None,
                            old_frozen |-> req[r].old_frozen,
                            new_frozen |-> freeze_share(req[r].pk, req[r].obj)]],
             "update_commit")
    /\ UNCHANGED <<db, seq, outbox, served, today>>

\* form_valid: the log entry, written when the frozen instance changed.
ShareOwnershipUpdateView_form_valid_log(r) ==
    /\ req[r].pc = "update_log"
    /\ LET new_frozen == freeze_share(req[r].pk, req[r].obj)
       IN  IF req[r].old_frozen # new_frozen
           THEN Write(r, [w |-> "insert_log",
                          entry |-> [kind |-> "UpdateShareOwnershipLogEntry",
                                     actor |-> req[r].caller,
                                     share_owner |-> req[r].obj.owner,
                                     user |-> None,
                                     old_frozen |-> req[r].old_frozen,
                                     new_frozen |-> new_frozen]],
                      "update_commit")
           ELSE Goto(r, "update_commit")
    /\ UNCHANGED <<db, seq, outbox, served, today>>

ShareOwnershipUpdateView_form_valid_commit(r) ==
    Commit(r, "update_commit", "done", "redirect")

(* ------------------- ShareOwnershipCreateMultipleView ------------------ *)

\* The fields ShareOwnershipCreateMultipleForm posts.
CreateFormInputs ==
    [num_shares : 0..MaxNumShares, start_date : Dates, end_date : {None, 1}]

\* ShareOwnershipCreateMultipleForm.is_valid: at least one share, and an end
\* date that does not precede the start date.
ShareOwnershipCreateMultipleForm_is_valid(d) ==
    /\ d.num_shares >= 1
    /\ d.end_date = None \/ d.end_date >= d.start_date

\* A faulty variant: the posted form reaches form_valid unvalidated.
ShareOwnershipCreateMultipleView_unvalidated(r, caller, method, pk, d) ==
    /\ CanReceive(r)
    /\ served' = served + 1
    /\ IF "coop.manage" \notin caller
       THEN Respond(r, "ShareOwnershipCreateMultipleView", caller, pk,
                    "denied")
       ELSE IF pk \notin DOMAIN db.owners
       THEN Respond(r, "ShareOwnershipCreateMultipleView", caller, pk,
                    "404")
       ELSE IF method = "GET"
       THEN Respond(r, "ShareOwnershipCreateMultipleView", caller, pk,
                    "form")
       ELSE Enter(r, "ShareOwnershipCreateMultipleView", caller, pk,
                  "create_log", db.owners[pk], Nil, d)
    /\ UNCHANGED <<db, seq, outbox, today>>

\* dispatch, post, form_valid down to the atomic block.
ShareOwnershipCreateMultipleView(r, caller, method, pk, d) ==
    /\ CanReceive(r)
    /\ served' = served + 1
    /\ IF "coop.manage" \notin caller
       THEN Respond(r, "ShareOwnershipCreateMultipleView", caller, pk,
                    "denied")
       ELSE IF pk \notin DOMAIN db.owners
       THEN Respond(r, "ShareOwnershipCreateMultipleView", caller, pk,
                    "404")
       ELSE IF method = "GET"
       THEN Respond(r, "ShareOwnershipCreateMultipleView", caller, pk,
                    "form")
       ELSE IF ~ShareOwnershipCreateMultipleForm_is_valid(d)
       THEN Respond(r, "ShareOwnershipCreateMultipleView", caller, pk,
                    "form_invalid")
       ELSE Enter(r, "ShareOwnershipCreateMultipleView", caller, pk,
                  "create_log", db.owners[pk], Nil, d)
    /\ UNCHANGED <<db, seq, outbox, today>>

ShareOwnershipCreateMultipleView_form_valid_log(r) ==
    /\ req[r].pc = "create_log"
    /\ Write(r, [w |-> "insert_log",
                 entry |-> [kind |-> "CreateShareOwnershipsLogEntry",
                            actor |-> req[r].caller,
                            share_owner |-> req[r].pk,
                            user |-> req[r].obj.user,
                            num_shares |-> req[r].data.num_shares,
                            start_date |-> req[r].data.start_date,
                            end_date |-> req[r].data.end_date]],
             "create_shares")
    /\ UNCHANGED <<db, seq, outbox, served, today>>

\* A faulty variant: the loop runs once more than num_shares.
ShareOwnershipCreateMultipleView_form_valid_shares_one_more(r) ==
    /\ req[r].pc = "create_shares"
    /\ IF req[r].n <= req[r].data.num_shares
       THEN /\ seq' = [seq EXCEPT !.share = @ + 1]
            /\ req' = [req EXCEPT
                 ![r].n = @ + 1,
                 ![r].writes = Append(@,
                     [w |-> "put_share", pk |-> seq.share + 1,
                      row |-> [owner |-> req[r].pk, amount_paid |-> 0,
                               start_date |-> req[r].data.start_date,
                               end_date |-> req[r].data.end_date]])]
       ELSE /\ Goto(r, "create_recap")
            /\ UNCHANGED seq
    /\ UNCHANGED <<db, outbox, served, today>>

\* One turn of `for _ in range(num_shares)`, or the loop's end.
ShareOwnershipCreateMultipleView_form_valid_shares(r) ==
    /\ req[r].pc = "create_shares"
    /\ IF req[r].n < req[r].data.num_shares
       THEN /\ seq' = [seq EXCEPT !.share = @ + 1]
            /\ req' = [req EXCEPT
                 ![r].n = @ + 1,
                 ![r].writes = Append(@,
                     [w |-> "put_share", pk |-> seq.share + 1,
                      row |-> [owner |-> req[r].pk, amount_paid |-> 0,
                               start_date |-> req[r].data.start_date,
                               end_date |-> req[r].data.end_date]])]
       ELSE /\ Goto(r, "create_recap")
            /\ UNCHANGED seq
    /\ UNCHANGED <<db, outbox, served, today>>

ShareOwnershipCreateMultipleView_form_valid_recap(r) ==
    /\ req[r].pc = "create_recap"
    /\ Write(r, [w |-> "insert_recap",
                 row |-> [member |-> req[r].pk,
                          number_of_shares |-> req[r].data.num_shares,
                          date |-> today]],
             "create_commit")
    /\ UNCHANGED <<db, seq, outbox, served, today>>

ShareOwnershipCreateMultipleView_form_valid_commit(r) ==
    Commit(r, "create_commit", "create_email", "none")

\* After the atomic block: the confirmation email, then the redirect.
ShareOwnershipCreateMultipleView_form_valid_email(r) ==
    /\ req[r].pc = "create_email"
    /\ outbox' = Append(outbox, [kind |-> "ExtraSharesConfirmationEmail",
                                 actor |-> req[r].caller,
                                 recipient |-> req[r].pk,
                                 num_shares |-> req[r].data.num_shares])
    /\ req' = [req EXCEPT ![r].pc = "done", ![r].resp = "redirect"]
    /\ UNCHANGED <<db, seq, served, today>>

\* send_to_share_owner raises: the request fails after the commit.
ShareOwnershipCreateMultipleView_form_valid_email_fails(r) ==
    /\ req[r].pc = "create_email"
    /\ req' = [req EXCEPT ![r].pc = "done", ![r].resp = "500"]
    /\ UNCHANGED <<db, seq, outbox, served, today>>

(* ------------------------- ShareOwnerUpdateView ------------------------ *)

OwnerFormFields ==
    {"is_company", "is_investing", "attended_welcome_session", "first_name",
     "email"}

\* The fields ShareOwnerForm edits.
OwnerFormData ==
    [is_company : BOOLEAN, is_investing : BOOLEAN,
     attended_welcome_session : BOOLEAN, first_name : {Blank, <<"a">>},
     email : {Blank, <<"e">>}]

\* The posted forms tried on a stored owner: those that change at most one field.
OwnerFormInputs(row) ==
    { d \in OwnerFormData :
        Cardinality({ f \in OwnerFormFields : d[f] # row[f] }) <= 1 }

\* form.instance after is_valid(): the loaded owner with the form's fields.
OwnerFormInstance(row, d) ==
    [row EXCEPT !.is_company = d.is_company, !.is_investing = d.is_investing,
                !.attended_welcome_session = d.attended_welcome_session,
                !.first_name = d.first_name, !.email = d.email]

\* ShareOwnerForm.is_valid (the model's validation): a company has no account,
\* and an owner with an account keeps no identity fields of its own.
ShareOwnerForm_is_valid(instance) ==
    /\ ~(instance.is_company /\ instance.user # None)
    /\ instance.user # None =>
          (instance.first_name = Blank /\ instance.email = Blank)

\* dispatch, get_object (with UpdateViewLogMixin's old_object_frozen), post.
ShareOwnerUpdateView(r, caller, method, pk, d) ==
    /\ CanReceive(r)
    /\ served' = served + 1
    /\ IF "accounts.manage" \notin caller
       THEN Respond(r, "ShareOwnerUpdateView", caller, pk, "denied")
       ELSE IF pk \notin DOMAIN db.owners
       THEN Respond(r, "ShareOwnerUpdateView", caller, pk, "404")
       ELSE IF method = "GET"
       THEN Respond(r, "ShareOwnerUpdateView", caller, pk, "form")
       ELSE IF ~ShareOwnerForm_is_valid(OwnerFormInstance(db.owners[pk], d))
       THEN Respond(r, "ShareOwnerUpdateView", caller, pk, "form_invalid")
       ELSE Enter(r, "ShareOwnerUpdateView", caller, pk, "owner_save",
                  OwnerFormInstance(db.owners[pk], d),
                  freeze_owner(pk, db.owners[pk]), d)
    /\ UNCHANGED <<db, seq, outbox, today>>

\* form_valid: super().form_valid(form) saves form.instance.
ShareOwnerUpdateView_form_valid_save(r) ==
    /\ req[r].pc = "owner_save"
    /\ Write(r, [w |-> "put_owner", pk |-> req[r].pk, row |-> req[r].obj],
             "owner_log")
    /\ UNCHANGED <<db, seq, outbox, served, today>>

\* form_valid: the log entry, written when the frozen instance changed.
ShareOwnerUpdateView_form_valid_log(r) ==
    /\ req[r].pc = "owner_log"
    /\ LET new_frozen == freeze_owner(req[r].pk, req[r].obj)
       IN  IF req[r].old_frozen # new_frozen
           THEN Write(r, [w |-> "insert_log",
                          entry |-> [kind |-> "UpdateShareOwnerLogEntry",
                                     actor |-> req[r].caller,
                                     share_owner |-> req[r].pk, user |-> None,
                                     old_frozen |-> req[r].old_frozen,
                                     new_frozen |-> new_frozen]],
                      "owner_commit")
           ELSE Goto(r, "owner_commit")
    /\ UNCHANGED <<db, seq, outbox, served, today>>

ShareOwnerUpdateView_form_valid_commit(r) ==
    Commit(r, "owner_commit", "done", "redirect")

(* --------------- mark_shareowner_attended_welcome_session -------------- *)

\* The decorators, the lookup and the snapshot taken before the atomic block.
mark_shareowner_attended_welcome_session(r, caller, method, pk) ==
    /\ CanReceive(r)
    /\ served' = served + 1
    /\ IF method # "POST"
       THEN Respond(r, "mark_shareowner_attended_welcome_session", caller,
                    pk, "405")
       ELSE IF "coop.manage" \notin caller
       THEN Respond(r, "mark_shareowner_attended_welcome_session", caller,
                    pk, "denied")
       ELSE IF pk \notin DOMAIN db.owners
       THEN Respond(r, "mark_shareowner_attended_welcome_session", caller,
                    pk, "404")
       ELSE Enter(r, "mark_shareowner_attended_welcome_session", caller,
                  pk, "mark_save", db.owners[pk], freeze_owner(pk, db.owners[pk]),
                  Nil)
    /\ UNCHANGED <<db, seq, outbox, today>>

\* A faulty variant: the flag is flipped instead of set.
mark_shareowner_attended_welcome_session_save_toggles(r) ==
    /\ req[r].pc = "mark_save"
    /\ LET share_owner == [req[r].obj EXCEPT !.attended_welcome_session = ~@]
       IN  req' = [req EXCEPT
                     ![r].obj = share_owner,
                     ![r].writes = Append(@, [w |-> "put_owner", pk |-> req[r].pk,
                                              row |-> share_owner]),
                     ![r].pc = "mark_log"]
    /\ UNCHANGED <<db, seq, outbox, served, today>>

\* share_owner.attended_welcome_session = True; share_owner.save()
mark_shareowner_attended_welcome_session_save(r) ==
    /\ req[r].pc = "mark_save"
    /\ LET share_owner == [req[r].obj EXCEPT !.attended_welcome_session = TRUE]
       IN  req' = [req EXCEPT
                     ![r].obj = share_owner,
                     ![r].writes = Append(@, [w |-> "put_owner", pk |-> req[r].pk,
                                              row |-> share_owner]),
                     ![r].pc = "mark_log"]
    /\ UNCHANGED <<db, seq, outbox, served, today>>

mark_shareowner_attended_welcome_session_log(r) ==
    /\ req[r].pc = "mark_log"
    /\ Write(r, [w |-> "insert_log",
                 entry |-> [kind |-> "UpdateShareOwnerLogEntry",
                            actor |-> req[r].caller,
                            share_owner |-> req[r].pk, user |-> None,
                            old_frozen |-> req[r].old_frozen,
                            new_frozen |-> freeze_owner(req[r].pk, req[r].obj)]],
             "mark_commit")
    /\ UNCHANGED <<db, seq, outbox, served, today>>

mark_shareowner_attended_welcome_session_commit(r) ==
    Commit(r, "mark_commit", "done", "redirect")

(* --------------------- CreateUserFromShareOwnerView -------------------- *)

Usernames == {"u1", "u2"}

\* The fields the view's form posts: first_name (last_name goes with it) and
\* username.
UserFormInputs == [first_name : {<<"a">>, <<"b">>}, username : Usernames]

\* tapir.utils.models.copy_user_info: the identity fields of the owner, set on
\* the new TapirUser.
copy_user_info(owner, user) ==
    [user EXCEPT !.first_name = owner.first_name, !.email = owner.email]

\* ShareOwner.blank_info_fields
blank_info_fields(owner) ==
    [owner EXCEPT !.first_name = Blank, !.email = Blank]

\* get_form_kwargs: the form's instance, a new TapirUser with the owner's info.
get_form_kwargs(owner) ==
    copy_user_info(owner, [username |-> "", first_name |-> Blank, email |-> Blank])

\* The ModelForm's is_valid: a username is given once.
UserForm_is_valid(d) ==
    \A u \in DOMAIN db.users : db.users[u].username # d.username

\* form.instance after is_valid(): the instance with the posted fields.
UserFormInstance(instance, d) ==
    [instance EXCEPT !.first_name = d.first_name, !.username = d.username]

\* A faulty variant: the guard on an owner that already has a user is missing.
dispatch_guard_company_only(owner) ==
    IF owner.is_company THEN "403_company" ELSE "pass"

\* A faulty variant: the guard on a company is missing.
dispatch_guard_user_only(owner) ==
    IF owner.user # None THEN "403_has_user" ELSE "pass"

\* dispatch's guards on the owner it looked up.
dispatch_guard(owner) ==
    IF owner.user # None THEN "403_has_user"
    ELSE IF owner.is_company THEN "403_company"
    ELSE "pass"

\* dispatch (the owner's lookup and the guards, then PermissionRequiredMixin),
\* get or post.
CreateUserFromShareOwnerView(r, caller, method, pk, d) ==
    /\ CanReceive(r)
    /\ served' = served + 1
    /\ IF pk \notin DOMAIN db.owners
       THEN Respond(r, "CreateUserFromShareOwnerView", caller, pk, "404")
       ELSE IF dispatch_guard(db.owners[pk]) # "pass"
       THEN Respond(r, "CreateUserFromShareOwnerView", caller, pk,
                    dispatch_guard(db.owners[pk]))
       ELSE IF "coop.manage" \notin caller
       THEN Respond(r, "CreateUserFromShareOwnerView", caller, pk, "denied")
       ELSE IF method = "GET"
       THEN Respond(r, "CreateUserFromShareOwnerView", caller, pk, "form")
       ELSE IF ~UserForm_is_valid(d)
       THEN Respond(r, "CreateUserFromShareOwnerView", caller, pk, "form_invalid")
       ELSE Enter(r, "CreateUserFromShareOwnerView", caller, pk, "grant_user",
                  UserFormInstance(get_form_kwargs(db.owners[pk]), d), Nil, d)
    /\ UNCHANGED <<db, seq, outbox, today>>

\* The usernames of the TapirUsers a request has inserted and not committed.
InsertedUsernames(r) ==
    { req[r].writes[i].row.username :
        i \in { j \in DOMAIN req[r].writes : req[r].writes[j].w = "put_user" } }

\* form_valid: super().form_valid(form) saves the new TapirUser.  The insert
\* waits for a transaction that has inserted the same username, and fails on
\* the unique username of a committed row.
CreateUserFromShareOwnerView_form_valid_user(r) ==
    /\ req[r].pc = "grant_user"
    /\ \A q \in Slots \ {r} : req[r].obj.username \notin InsertedUsernames(q)
    /\ IF \E u \in DOMAIN db.users : db.users[u].username = req[r].obj.username
       THEN /\ req' = [req EXCEPT ![r].writes = <<>>, ![r].pc = "done",
                                  ![r].resp = "500"]
            /\ UNCHANGED seq
       ELSE /\ seq' = [seq EXCEPT !.user = @ + 1]
            /\ req' = [req EXCEPT
                         ![r].n = seq.user + 1,
                         ![r].writes = Append(@, [w |-> "put_user",
                                                  pk |-> seq.user + 1,
                                                  row |-> req[r].obj]),
                         ![r].pc = "grant_owner"]
    /\ UNCHANGED <<db, outbox, served, today>>

\* A faulty variant: the owner is linked and saved with its fields left as
\* they were.
CreateUserFromShareOwnerView_form_valid_owner_unblanked(r) ==
    /\ req[r].pc = "grant_owner"
    /\ Write(r, [w |-> "put_owner", pk |-> req[r].pk,
                 row |-> [View(r).owners[req[r].pk] EXCEPT !.user = req[r].n]],
             "grant_rekey")
    /\ UNCHANGED <<db, seq, outbox, served, today>>

\* form_valid: the owner is read again, linked, blanked and saved.
CreateUserFromShareOwnerView_form_valid_owner(r) ==
    /\ req[r].pc = "grant_owner"
    /\ IF req[r].pk \notin DOMAIN View(r).owners
       THEN req' = [req EXCEPT ![r].writes = <<>>, ![r].pc = "done",
                               ![r].resp = "404"]
       ELSE LET owner == [View(r).owners[req[r].pk] EXCEPT !.user = req[r].n]
            IN  Write(r, [w |-> "put_owner", pk |-> req[r].pk,
                          row |-> blank_info_fields(owner)],
                      "grant_rekey")
    /\ UNCHANGED <<db, seq, outbox, served, today>>

\* form_valid: LogEntry.objects.filter(share_owner=owner).update(...)
CreateUserFromShareOwnerView_form_valid_rekey(r) ==
    /\ req[r].pc = "grant_rekey"
    /\ Write(r, [w |-> "rekey_logs", share_owner |-> req[r].pk,
                 user |-> req[r].n],
             "grant_email")
    /\ UNCHANGED <<db, seq, outbox, served, today>>

\* form_valid: the email, sent inside the atomic block.
CreateUserFromShareOwnerView_form_valid_email(r) ==
    /\ req[r].pc = "grant_email"
    /\ outbox' = Append(outbox, [kind |-> "TapirAccountCreatedEmail",
                                 actor |-> req[r].caller,
                                 recipient |-> req[r].n])
    /\ Goto(r, "grant_commit")
    /\ UNCHANGED <<db, seq, served, today>>

CreateUserFromShareOwnerView_form_valid_commit(r) ==
    Commit(r, "grant_commit", "done", "redirect")

(* ------------------------------ the system ---------------------------- *)

Serve(r) ==
    \/ \E caller \in Callers, method \in Methods, pk \in 1..(seq.share + 1) :
          share_ownership_delete(r, caller, method, pk)
    \/ share_ownership_delete_log(r)
    \/ share_ownership_delete_delete(r)
    \/ share_ownership_delete_commit(r)
    \/ \E caller \in Callers, method \in Methods, pk \in 1..(seq.share + 1) :
          \E d \in IF pk \in DOMAIN db.shares THEN ShareFormInputs(db.shares[pk])
                    ELSE {Nil} :
             ShareOwnershipUpdateView(r, caller, method, pk, d)
    \/ ShareOwnershipUpdateView_form_valid_save(r)
    \/ ShareOwnershipUpdateView_form_valid_log(r)
    \/ ShareOwnershipUpdateView_form_valid_commit(r)
    \/ \E caller \in Callers, method \in Methods, pk \in OwnerPkArgs,
          d \in CreateFormInputs :
          ShareOwnershipCreateMultipleView(r, caller, method, pk, d)
    \/ ShareOwnershipCreateMultipleView_form_valid_log(r)
    \/ ShareOwnershipCreateMultipleView_form_valid_shares(r)
    \/ ShareOwnershipCreateMultipleView_form_valid_recap(r)
    \/ ShareOwnershipCreateMultipleView_form_valid_commit(r)
    \/ ShareOwnershipCreateMultipleView_form_valid_email(r)
    \/ ShareOwnershipCreateMultipleView_form_valid_email_fails(r)
    \/ \E caller \in Callers, method \in Methods, pk \in OwnerPkArgs :
          \E d \in IF pk \in DOMAIN db.owners THEN OwnerFormInputs(db.owners[pk])
                    ELSE {Nil} :
             ShareOwnerUpdateView(r, caller, method, pk, d)
    \/ ShareOwnerUpdateView_form_valid_save(r)
    \/ ShareOwnerUpdateView_form_valid_log(r)
    \/ ShareOwnerUpdateView_form_valid_commit(r)
    \/ \E caller \in Callers, method \in Methods, pk \in OwnerPkArgs :
          mark_shareowner_attended_welcome_session(r, caller, method, pk)
    \/ mark_shareowner_attended_welcome_session_save(r)
    \/ mark_shareowner_attended_welcome_session_log(r)
    \/ mark_shareowner_attended_welcome_session_commit(r)
    \/ \E caller \in Callers, method \in Methods, pk \in OwnerPkArgs,
          d \in UserFormInputs :
          CreateUserFromShareOwnerView(r, caller, method, pk, d)
    \/ CreateUserFromShareOwnerView_form_valid_user(r)
    \/ CreateUserFromShareOwnerView_form_valid_owner(r)
    \/ CreateUserFromShareOwnerView_form_valid_rekey(r)
    \/ CreateUserFromShareOwnerView_form_valid_email(r)
    \/ CreateUserFromShareOwnerView_form_valid_commit(r)
    \/ Rollback(r)
    \/ Return(r)

\* One worker serves the requests one at a time.
Next == Serve(1)

Spec == Init /\ [][Next]_vars

(* ----------------------- the free-text search filter ------------------- *)

\* Longest search term tried.
MaxTermLen == 2

\* The characters of a term: decimal digits, letters in both cases, and
\* SUPERSCRIPT TWO, a digit to str.isdigit that is no decimal to int().
DecimalChars == {"1", "2"}

SuperscriptChars == {"sup2"}

LetterChars == {"s", "S", "m"}

Chars == DecimalChars \cup SuperscriptChars \cup LetterChars

Terms == UNION { [1..n -> Chars] : n \in 0..MaxTermLen }

\* str.isdigit: a non-empty string of digit characters.
isdigit(value) ==
    /\ Len(value) > 0
    /\ \A i \in 1..Len(value) : value[i] \in DecimalChars \cup SuperscriptChars

\* int() takes a string of decimal digits and raises ValueError on others.
int_raises(value) ==
    \E i \in 1..Len(value) : value[i] \notin DecimalChars

DecimalValue(c) == IF c = "1" THEN 1 ELSE 2

RECURSIVE int(_)
int(value) ==
    IF Len(value) = 0 THEN 0
    ELSE 10 * int(SubSeq(value, 1, Len(value) - 1))
           + DecimalValue(value[Len(value)])

lower(c) == IF c = "S" THEN "s" ELSE c

\* icontains: `term` is a substring of `name`, cases folded.
icontains(name, term) ==
    \E i \in 0..(Len(name) - Len(term)) :
        \A j \in 1..Len(term) : lower(name[i + j]) = lower(term[j])

\* get_info(): the name of an owner is its account's once it has one.
DisplayName(d, pk) ==
    IF d.owners[pk].user # None THEN d.users[d.owners[pk].user].first_name
    ELSE d.owners[pk].first_name

\* ShareOwnerQuerySet.with_name
with_name(d, queryset, value) ==
    { pk \in queryset : icontains(DisplayName(d, pk), value) }

\* What a filter method returns: rows, or the exception it raised.
Rows(rows) == [raised |-> "none", rows |-> rows]

Raised(exception) == [raised |-> exception, rows |-> {}]

\* ShareOwnerFilter.display_name_filter
ShareOwnerFilter_display_name_filter(d, queryset, value) ==
    IF isdigit(value)
    THEN IF int_raises(value) THEN Raised("ValueError")
         ELSE Rows({ pk \in queryset : pk = int(value) })
    ELSE Rows(with_name(d, queryset, value))

\* ShareOwnerFilterWelcomeDesk.display_name_filter
ShareOwnerFilterWelcomeDesk_display_name_filter(d, queryset, value) ==
    IF Len(value) = 0 THEN Rows({})
    ELSE IF isdigit(value)
    THEN IF int_raises(value) THEN Raised("ValueError")
         ELSE Rows({ pk \in queryset : pk = int(value) })
    ELSE Rows(with_name(d, queryset, value))

\* The stores searched: owners 2 and 12, the second with its name on its
\* account.
FilterStores ==
    { [owners |-> (2 :> [Person EXCEPT !.first_name = n])
                    @@ (12 :> Linked),
       shares |-> << >>,
       users  |-> (1 :> [username |-> "u1", first_name |-> <<"s", "m">>,
                         email |-> <<"f">>]),
       log    |-> << >>,
       recaps |-> << >>] : n \in {<<"S", "m">>, <<"m", "S">>} }

InitFilter ==
    /\ db \in FilterStores
    /\ seq = [share |-> 0, user |-> 1]
    /\ outbox = << >>
    /\ req = [r \in Slots |-> IdleReq]
    /\ served = 0
    /\ today = CHOOSE d \in Dates : \A e \in Dates : e <= d

\* The roster's filter applied to a candidate set.
ApplyRosterSearch(r, queryset, value) ==
    /\ req[r].pc = "idle"
    /\ req' = [req EXCEPT ![r] =
                 [IdleReq EXCEPT
                    !.op = "ShareOwnerFilter.display_name_filter",
                    !.pc = "done",
                    !.data = [queryset |-> queryset, value |-> value],
                    !.obj = ShareOwnerFilter_display_name_filter(db, queryset,
                                                                 value)]]
    /\ UNCHANGED <<db, seq, outbox, served, today>>

\* The welcome desk's filter applied to a candidate set.
ApplyWelcomeDeskSearch(r, queryset, value) ==
    /\ req[r].pc = "idle"
    /\ req' = [req EXCEPT ![r] =
                 [IdleReq EXCEPT
                    !.op = "ShareOwnerFilterWelcomeDesk.display_name_filter",
                    !.pc = "done",
                    !.data = [queryset |-> queryset, value |-> value],
                    !.obj = ShareOwnerFilterWelcomeDesk_display_name_filter(
                               db, queryset, value)]]
    /\ UNCHANGED <<db, seq, outbox, served, today>>

NextFilter ==
    \/ \E queryset \in SUBSET DOMAIN db.owners, value \in Terms :
          ApplyRosterSearch(1, queryset, value)
    \/ \E queryset \in SUBSET DOMAIN db.owners, value \in Terms :
          ApplyWelcomeDeskSearch(1, queryset, value)
    \/ Return(1)

SpecFilter == InitFilter /\ [][NextFilter]_vars

(* --------------------------- the roster filters ------------------------ *)

\* Most filters of one roster query that carry a value.
MaxFilters == 2

\* ShareOwnership.objects.active_temporal(date): the shares whose range holds
\* the date, both ends included.
active_temporal(d, date) ==
    { p \in DOMAIN d.shares :
        /\ d.shares[p].start_date <= date
        /\ (d.shares[p].end_date = None \/ d.shares[p].end_date >= date) }

\* ShareOwner.get_active_share_ownerships
get_active_share_ownerships(d, pk, date) ==
    { p \in active_temporal(d, date) : d.shares[p].owner = pk }

\* ShareOwner.get_member_status
get_member_status(d, pk, date) ==
    IF get_active_share_ownerships(d, pk, date) = {} THEN "sold"
    ELSE IF d.owners[pk].is_investing THEN "investing"
    ELSE "active"

\* ShareOwnerQuerySet.with_status
with_status(d, date, queryset, value) ==
    { pk \in queryset : get_member_status(d, pk, date) = value }

\* ShareOwnerQuerySet.with_fully_paid: the owners whose shares are all paid.
with_fully_paid(d, queryset, value) ==
    { pk \in queryset :
        (\A p \in DOMAIN d.shares :
            d.shares[p].owner = pk =>
               d.shares[p].amount_paid >= COOP_SHARE_PRICE) <=> value }

\* TapirUser.objects.with_shift_attendance_mode
TapirUser_with_shift_attendance_mode(d, value) ==
    { u \in DOMAIN d.users : d.users[u].shift_attendance_mode = value }

\* TapirUser.objects.registered_to_shift_slot_with_capability
TapirUser_registered_to_shift_slot_with_capability(d, value) ==
    { u \in DOMAIN d.users : value \in d.users[u].slot_capabilities }

\* TapirUser.objects.has_capability
TapirUser_has_capability(d, value) ==
    { u \in DOMAIN d.users : value \in d.users[u].capabilities }

\* queryset.filter(user__in=users): a NULL user is in no set.
filter_user_in(d, queryset, users) ==
    { pk \in queryset : d.owners[pk].user # None /\ d.owners[pk].user \in users }

\* queryset.exclude(user__in=users): the ORM keeps the rows whose user is NULL.
exclude_user_in(d, queryset, users) ==
    { pk \in queryset : d.owners[pk].user = None \/ d.owners[pk].user \notin users }

\* Python's truth value of a BooleanFilter's value (True, False or None).
truthy(value) == value = "True"

status_filter(d, date, queryset, value) ==
    Rows(with_status(d, date, queryset, value))

shift_attendance_mode_filter(d, queryset, value) ==
    Rows(filter_user_in(d, queryset,
                        TapirUser_with_shift_attendance_mode(d, value)))

registered_to_slot_with_capability_filter(d, queryset, value) ==
    Rows(filter_user_in(d, queryset,
            TapirUser_registered_to_shift_slot_with_capability(d, value)))

has_capability_filter(d, queryset, value) ==
    Rows(filter_user_in(d, queryset, TapirUser_has_capability(d, value)))

\* A faulty variant: the exclusion drops the owners without account, as SQL's
\* NOT IN does on NULL.
not_has_capability_filter_drops_null(d, queryset, value) ==
    Rows({ pk \in queryset :
             /\ d.owners[pk].user # None
             /\ d.owners[pk].user \notin TapirUser_has_capability(d, value) })

not_has_capability_filter(d, queryset, value) ==
    Rows(exclude_user_in(d, queryset, TapirUser_has_capability(d, value)))

\* queryset.exclude(user__isnull=value); the ORM refuses None as a query value.
has_tapir_account_filter(d, queryset, value) ==
    IF value = "None" THEN Raised("ValueError")
    ELSE Rows({ pk \in queryset :
                  ~((d.owners[pk].user = None) <=> truthy(value)) })

abcd_week_filter(d, queryset, value) ==
    Rows({ pk \in queryset :
             /\ d.owners[pk].user # None
             /\ value \in d.users[d.owners[pk].user].abcd_weeks })

has_unpaid_shares_filter(d, queryset, value) ==
    LET unpaid_shares ==
            { p \in DOMAIN d.shares :
                /\ d.shares[p].amount_paid < COOP_SHARE_PRICE
                /\ d.shares[p].owner \in queryset }
        has_unpaid(pk) == \E p \in unpaid_shares : d.shares[p].owner = pk
    IN  IF truthy(value)
        THEN Rows({ pk \in queryset : has_unpaid(pk) })
        ELSE Rows({ pk \in queryset : ~has_unpaid(pk) })

is_fully_paid_filter(d, queryset, value) ==
    Rows(with_fully_paid(d, queryset, truthy(value)))

\* The filters of ShareOwnerFilter that are given a method.
FilterNames ==
    {"status", "shift_attendance_mode", "registered_to_slot_with_capability",
     "has_capability", "not_has_capability", "has_tapir_account", "abcd_week",
     "has_unpaid_shares", "is_fully_paid", "display_name"}

\* The values tried for each filter, in a row.
FilterValueSeq(f) ==
    CASE f = "status" -> <<"active", "investing", "sold">>
      [] f = "shift_attendance_mode" -> <<"regular">>
      [] f \in {"registered_to_slot_with_capability", "has_capability",
                "not_has_capability"} -> <<"shift_coordinator">>
      [] f \in {"has_tapir_account", "has_unpaid_shares", "is_fully_paid"} ->
            <<"True", "False">>
      [] f = "abcd_week" -> <<"A">>
      [] f = "display_name" -> << <<"s">>, <<"2">>, <<"sup2">> >>

FilterValues(f) == { FilterValueSeq(f)[i] : i \in 1..Len(FilterValueSeq(f)) }

\* The most values tried for one filter.
MaxChoices ==
    CHOOSE n \in 1..Cardinality(FilterNames) :
        /\ \A f \in FilterNames : Len(FilterValueSeq(f)) <= n
        /\ \E f \in FilterNames : Len(FilterValueSeq(f)) = n

\* The ways to give each filter of a set one of its values.
Choices(fs) ==
    { choice \in [fs -> 1..MaxChoices] :
        \A f \in fs : choice[f] <= Len(FilterValueSeq(f)) }

\* The value a filter has when the query does not name it: the empty string
\* of a CharFilter, None of the others.
Absent(f) == IF f = "display_name" THEN <<>> ELSE "None"

\* The method a filter's name is bound to.
FilterMethod(f, d, date, queryset, value) ==
    CASE f = "status" -> status_filter(d, date, queryset, value)
      [] f = "shift_attendance_mode" ->
            shift_attendance_mode_filter(d, queryset, value)
      [] f = "registered_to_slot_with_capability" ->
            registered_to_slot_with_capability_filter(d, queryset, value)
      [] f = "has_capability" -> has_capability_filter(d, queryset, value)
      [] f = "not_has_capability" ->
            not_has_capability_filter(d, queryset, value)
      [] f = "has_tapir_account" -> has_tapir_account_filter(d, queryset, value)
      [] f = "abcd_week" -> abcd_week_filter(d, queryset, value)
      [] f = "has_unpaid_shares" -> has_unpaid_shares_filter(d, queryset, value)
      [] f = "is_fully_paid" -> is_fully_paid_filter(d, queryset, value)
      [] f = "display_name" ->
            ShareOwnerFilter_display_name_filter(d, queryset, value)

\* django_filters' FilterMethod.__call__: a filter without value leaves the
\* queryset as it is, any other is handed to its method.
FilterMethod_call(f, d, date, queryset, value) ==
    IF value = Absent(f) THEN Rows(queryset)
    ELSE FilterMethod(f, d, date, queryset, value)

\* FilterSet.filter_queryset: the filters applied one after the other, each to
\* the queryset the one before returned.
RECURSIVE filter_queryset(_, _, _, _, _)
filter_queryset(order, d, date, result, values) ==
    IF order = <<>> \/ result.raised # "none" THEN result
    ELSE filter_queryset(Tail(order), d, date,
                         FilterMethod_call(Head(order), d, date, result.rows,
                                           values[Head(order)]),
                         values)

\* The filters a query names: the sets of at most MaxFilters filter names.
NamedFilters ==
    { fs \in SUBSET FilterNames : Cardinality(fs) <= MaxFilters }

\* The orders in which the filters of a set may be applied.
Orders(fs) ==
    { order \in [1..Cardinality(fs) -> fs] :
        \A i, j \in 1..Cardinality(fs) : i # j => order[i] # order[j] }

\* The users of the rosters searched.
Member(capabilities) ==
    [username |-> "u1", first_name |-> <<"s", "m">>, email |-> <<"f">>,
     capabilities |-> capabilities, shift_attendance_mode |-> "regular",
     slot_capabilities |-> {"shift_coordinator"}, abcd_weeks |-> {"A"}]

\* A roster: a person with one share; a member with an account and a paid
\* share; a company without share.
RosterStore(amount_paid, end_date, is_investing, capabilities) ==
    [owners |-> (1 :> [Person EXCEPT !.first_name = <<"S">>])
                  @@ (2 :> [Linked EXCEPT !.is_investing = is_investing])
                  @@ (3 :> Company),
     shares |-> (1 :> [owner |-> 1, amount_paid |-> amount_paid,
                       start_date |-> 1, end_date |-> end_date])
                  @@ (2 :> [owner |-> 2, amount_paid |-> COOP_SHARE_PRICE,
                            start_date |-> 1, end_date |-> None]),
     users  |-> (1 :> Member(capabilities)),
     log    |-> << >>,
     recaps |-> << >>]

\* The rosters searched: the person's share unpaid or paid, running or ended,
\* the member investing or not, qualified or not.
RosterStores ==
    { RosterStore(0, None, FALSE, {}),
      RosterStore(COOP_SHARE_PRICE, 1, TRUE, {"shift_coordinator"}),
      RosterStore(0, 1, FALSE, {"shift_coordinator"}) }

InitRoster ==
    /\ db \in RosterStores
    /\ seq = [share |-> 2, user |-> 1]
    /\ outbox = << >>
    /\ req = [r \in Slots |-> IdleReq]
    /\ served = 0
    /\ today = CHOOSE d \in Dates : \A e \in Dates : e <= d

\* The roster's filterset applied to a candidate set: the filters the query
\* names are called with their values in some order (the others, called
\* without value, return what they are given).
ShareOwnerFilter_qs(r, queryset, fs, order, choice) ==
    /\ CanReceive(r)
    /\ served' = served + 1
    /\ LET values == [f \in FilterNames |->
                        IF f \in fs THEN FilterValueSeq(f)[choice[f]]
                        ELSE Absent(f)]
       IN  req' = [req EXCEPT ![r] =
                     [IdleReq EXCEPT
                        !.op = "ShareOwnerFilter.qs",
                        !.pc = "done",
                        !.data = [queryset |-> queryset, named |-> fs,
                                  values |-> values],
                        !.obj = filter_queryset(order, db, today,
                                                Rows(queryset), values)]]
    /\ UNCHANGED <<db, seq, outbox, today>>

\* The predicates whose code says what they return for a value that is absent.
AbsentValuePredicates ==
    {"ShareOwnerFilter.display_name_filter",
     "ShareOwnerFilterWelcomeDesk.display_name_filter",
     "ShareOwnerFilter.has_unpaid_shares_filter",
     "ShareOwnerFilter.has_tapir_account_filter"}

\* A filter predicate called with the value of a filter the query left out.
ApplyPredicateWithoutValue(r, predicate, queryset) ==
    /\ CanReceive(r)
    /\ served' = served + 1
    /\ req' = [req EXCEPT ![r] =
                 [IdleReq EXCEPT
                    !.op = predicate,
                    !.pc = "done",
                    !.data = [queryset |-> queryset, absent |-> TRUE],
                    !.obj =
                       CASE predicate = "ShareOwnerFilter.display_name_filter" ->
                               ShareOwnerFilter_display_name_filter(
                                  db, queryset, Absent("display_name"))
                         [] predicate =
                               "ShareOwnerFilterWelcomeDesk.display_name_filter" ->
                               ShareOwnerFilterWelcomeDesk_display_name_filter(
                                  db, queryset, Absent("display_name"))
                         [] predicate =
                               "ShareOwnerFilter.has_unpaid_shares_filter" ->
                               has_unpaid_shares_filter(
                                  db, queryset, Absent("has_unpaid_shares"))
                         [] predicate =
                               "ShareOwnerFilter.has_tapir_account_filter" ->
                               has_tapir_account_filter(
                                  db, queryset, Absent("has_tapir_account"))]]
    /\ UNCHANGED <<db, seq, outbox, today>>

NextRoster ==
    \/ /\ CanReceive(1)
       /\ \E queryset \in SUBSET DOMAIN db.owners, fs \in NamedFilters :
             \E order \in Orders(fs), choice \in Choices(fs) :
                ShareOwnerFilter_qs(1, queryset, fs, order, choice)
    \/ /\ CanReceive(1)
       /\ \E predicate \in AbsentValuePredicates,
             queryset \in SUBSET DOMAIN db.owners :
             ApplyPredicateWithoutValue(1, predicate, queryset)
    \/ Return(1)

SpecRoster == InitRoster /\ [][NextRoster]_vars

(* ------------------- documents, current members, status ---------------- *)

\* Last day of the calendar of the stores read.
MaxDate == 3

RefDates == 1..MaxDate

\* The date strings a query carries, and the day "%d.%m.%Y" reads from those
\* it accepts (days counted from 01.01.2024).
DateStrings == {"01.01.2024", "02.01.2024", "2024-01-01"}

ParsedDates == ("01.01.2024" :> 1) @@ ("02.01.2024" :> 2)

\* datetime.datetime.strptime(value, "%d.%m.%Y") raises ValueError on a string
\* of another format.
strptime_raises(value) == value \notin DOMAIN ParsedDates

strptime(value) == ParsedDates[value]

NumSharesStrings == {"5"}

\* request.GET: the parameters a query carries, by name.
QueryDicts ==
    UNION { { GET \in [keys -> NumSharesStrings \cup DateStrings] :
                /\ "num_shares" \in keys => GET["num_shares"] \in NumSharesStrings
                /\ "date" \in keys => GET["date"] \in DateStrings } :
            keys \in SUBSET {"num_shares", "date"} }

\* The date ranges of a share: end_date null or not before start_date.
ShareRanges ==
    { range \in [start_date : RefDates, end_date : {None} \cup RefDates] :
        range.end_date = None \/ range.end_date >= range.start_date }

\* The stores read: a person, investing or not, with no share, one share of
\* any range, and possibly a second, open-ended one; a member with account.
ReadStores ==
    { [owners |-> (1 :> [Person EXCEPT !.is_investing = i]) @@ (2 :> Linked),
       shares |-> [p \in first \cup second |->
                     IF p = 1
                     THEN [owner |-> 1, amount_paid |-> COOP_SHARE_PRICE,
                           start_date |-> range.start_date,
                           end_date |-> range.end_date]
                     ELSE [owner |-> 1, amount_paid |-> 0, start_date |-> 2,
                           end_date |-> None]],
       users  |-> (1 :> [username |-> "u1", first_name |-> <<"b">>,
                         email |-> <<"f">>]),
       log    |-> << >>,
       recaps |-> << >>] :
        i \in BOOLEAN, range \in ShareRanges, first \in {{}, {1}},
        second \in {{}, {2}} }

InitRead ==
    /\ db \in ReadStores
    /\ seq = [share |-> 2, user |-> 1]
    /\ outbox = << >>
    /\ req = [r \in Slots |-> IdleReq]
    /\ served = 0
    /\ today \in RefDates

\* The handler answers with a document it had generated.
RespondPdf(r, op, caller, pk, GET, document) ==
    req' = [req EXCEPT ![r] = [IdleReq EXCEPT !.op = op, !.pc = "done",
                                              !.caller = caller, !.pk = pk,
                                              !.data = GET, !.obj = document,
                                              !.resp = "pdf"]]

\* The handler fails before it generates a document.
RespondError(r, op, caller, pk, GET, resp) ==
    req' = [req EXCEPT ![r] = [IdleReq EXCEPT !.op = op, !.pc = "done",
                                              !.caller = caller, !.pk = pk,
                                              !.data = GET, !.resp = resp]]

\* A faulty variant: a missing parameter is an error, as for the extra shares.
shareowner_membership_confirmation_strict(r, caller, method, pk, GET) ==
    /\ CanReceive(r)
    /\ served' = served + 1
    /\ IF DOMAIN GET # {"num_shares", "date"}
       THEN RespondError(r, "shareowner_membership_confirmation", caller, pk,
                         GET, "ValidationError")
       ELSE RespondError(r, "shareowner_membership_confirmation", caller, pk,
                         GET, "500")
    /\ UNCHANGED <<db, seq, outbox, today>>

\* shareowner_membership_confirmation
shareowner_membership_confirmation(r, caller, method, pk, GET) ==
    /\ CanReceive(r)
    /\ served' = served + 1
    /\ LET op == "shareowner_membership_confirmation"
       IN  IF method # "GET" THEN RespondError(r, op, caller, pk, GET, "405")
           ELSE IF "coop.manage" \notin caller
           THEN RespondError(r, op, caller, pk, GET, "denied")
           ELSE IF pk \notin DOMAIN db.owners
           THEN RespondError(r, op, caller, pk, GET, "404")
           ELSE IF "date" \in DOMAIN GET /\ strptime_raises(GET["date"])
           THEN RespondError(r, op, caller, pk, GET, "500")
           ELSE RespondPdf(r, op, caller, pk, GET,
                   [pdf |-> "get_shareowner_membership_confirmation_pdf",
                    owner |-> pk,
                    num_shares |->
                       IF "num_shares" \in DOMAIN GET THEN GET["num_shares"]
                       ELSE Cardinality(
                               get_active_share_ownerships(db, pk, today)),
                    date |-> IF "date" \in DOMAIN GET THEN strptime(GET["date"])
                             ELSE today])
    /\ UNCHANGED <<db, seq, outbox, today>>

\* A faulty variant: missing parameters are filled in, as for the membership
\* confirmation.
shareowner_extra_shares_confirmation_defaulting(r, caller, method, pk, GET) ==
    /\ CanReceive(r)
    /\ served' = served + 1
    /\ RespondPdf(r, "shareowner_extra_shares_confirmation", caller, pk, GET,
                  [pdf |-> "get_confirmation_extra_shares_pdf", owner |-> pk,
                   num_shares |-> "1", date |-> today])
    /\ UNCHANGED <<db, seq, outbox, today>>

\* shareowner_extra_shares_confirmation
shareowner_extra_shares_confirmation(r, caller, method, pk, GET) ==
    /\ CanReceive(r)
    /\ served' = served + 1
    /\ LET op == "shareowner_extra_shares_confirmation"
       IN  IF method # "GET" THEN RespondError(r, op, caller, pk, GET, "405")
           ELSE IF "coop.manage" \notin caller
           THEN RespondError(r, op, caller, pk, GET, "denied")
           ELSE IF pk \notin DOMAIN db.owners
           THEN RespondError(r, op, caller, pk, GET, "404")
           ELSE IF "num_shares" \notin DOMAIN GET
           THEN RespondError(r, op, caller, pk, GET, "ValidationError")
           ELSE IF "date" \notin DOMAIN GET
           THEN RespondError(r, op, caller, pk, GET, "ValidationError")
           ELSE IF strptime_raises(GET["date"])
           THEN RespondError(r, op, caller, pk, GET, "500")
           ELSE RespondPdf(r, op, caller, pk, GET,
                   [pdf |-> "get_confirmation_extra_shares_pdf", owner |-> pk,
                    num_shares |-> GET["num_shares"],
                    date |-> strptime(GET["date"])])
    /\ UNCHANGED <<db, seq, outbox, today>>

\* A faulty variant: a share counts up to the day before its end date.
CurrentShareOwnerMixin_get_queryset_end_excluded(d, date, queryset) ==
    { pk \in queryset :
        \E p \in DOMAIN d.shares :
           /\ d.shares[p].owner = pk
           /\ d.shares[p].start_date <= date
           /\ (d.shares[p].end_date = None \/ d.shares[p].end_date > date) }

\* CurrentShareOwnerMixin.get_queryset: the owners of the queryset that hold a
\* share of active_temporal().
CurrentShareOwnerMixin_get_queryset(d, date, queryset) ==
    { pk \in queryset :
        \E p \in active_temporal(d, date) : d.shares[p].owner = pk }

\* ShareOwnerExportMailchimpView: the current members that are not investing.
ShareOwnerExportMailchimpView(r, caller) ==
    /\ CanReceive(r)
    /\ served' = served + 1
    /\ LET op == "ShareOwnerExportMailchimpView"
       IN  IF "coop.manage" \notin caller
           THEN RespondError(r, op, caller, None, Nil, "denied")
           ELSE req' = [req EXCEPT ![r] =
                          [IdleReq EXCEPT
                             !.op = op, !.pc = "done", !.caller = caller,
                             !.obj = [current |->
                                         CurrentShareOwnerMixin_get_queryset(
                                            db, today, DOMAIN db.owners),
                                      rows |->
                                         { pk \in
                                             CurrentShareOwnerMixin_get_queryset(
                                                db, today, DOMAIN db.owners) :
                                             ~db.owners[pk].is_investing }],
                             !.resp = "csv"]]
    /\ UNCHANGED <<db, seq, outbox, today>>

\* A faulty variant: the investing flag is not looked at.
value_status_flag_ignored(d, date, record) ==
    IF get_active_share_ownerships(d, record, date) = {} THEN "sold"
    ELSE "active"

\* ShareOwnerTable.value_status
value_status(d, date, record) == get_member_status(d, record, date)

\* ShareOwnerTable.render_status: the status and the colour it is shown in.
render_status(d, date, record) ==
    LET status == get_member_status(d, record, date)
    IN  [status |-> status,
         color  |-> IF status = "sold" THEN "orange"
                    ELSE IF status = "active" THEN "green"
                    ELSE "blue"]

\* The roster's table renders the status column of a row.
ShareOwnerTable_status(r, record) ==
    /\ CanReceive(r)
    /\ served' = served + 1
    /\ req' = [req EXCEPT ![r] =
                 [IdleReq EXCEPT
                    !.op = "ShareOwnerTable.status", !.pc = "done",
                    !.pk = record,
                    !.obj = [value  |-> value_status(db, today, record),
                             render |-> render_status(db, today, record)],
                    !.resp = "table"]]
    /\ UNCHANGED <<db, seq, outbox, today>>

NextRead ==
    \/ /\ CanReceive(1)
       /\ \E caller \in Callers, method \in Methods, pk \in OwnerPkArgs,
             GET \in QueryDicts :
             shareowner_membership_confirmation(1, caller, method, pk, GET)
    \/ /\ CanReceive(1)
       /\ \E caller \in Callers, method \in Methods, pk \in OwnerPkArgs,
             GET \in QueryDicts :
             shareowner_extra_shares_confirmation(1, caller, method, pk, GET)
    \/ \E caller \in Callers : ShareOwnerExportMailchimpView(1, caller)
    \/ \E record \in DOMAIN db.owners : ShareOwnerTable_status(1, record)
    \/ Return(1)

SpecRead == InitRead /\ [][NextRead]_vars

(* --------------------------- concurrent requests ----------------------- *)

\* A caller that holds the permissions of the owner views.
Manager == {"coop.manage", "accounts.manage"}

\* Every worker may be given a request of its own before the count of
\* requests is reached.
InitConcurrent ==
    /\ db \in InitStores
    /\ seq = [share |-> 1, user |-> Cardinality(DOMAIN db.users)]
    /\ outbox = << >>
    /\ req = [r \in Slots |-> IdleReq]
    /\ served = 1 - Cardinality(Slots)
    /\ today = CHOOSE d \in Dates : \A e \in Dates : e <= d

\* A worker serving account grants posted by a manager.
ServeGrant(r) ==
    \/ \E pk \in OwnerPks, d \in UserFormInputs :
          CreateUserFromShareOwnerView(r, Manager, "POST", pk, d)
    \/ CreateUserFromShareOwnerView_form_valid_user(r)
    \/ CreateUserFromShareOwnerView_form_valid_owner(r)
    \/ CreateUserFromShareOwnerView_form_valid_rekey(r)
    \/ CreateUserFromShareOwnerView_form_valid_email(r)
    \/ CreateUserFromShareOwnerView_form_valid_commit(r)
    \/ Rollback(r)
    \/ Return(r)

NextGrantRace == \E r \in Slots : ServeGrant(r)

\* The workers serve account grants side by side.
SpecGrantRace == InitConcurrent /\ [][NextGrantRace]_vars

\* A worker serving welcome-session marks and owner edits posted by a manager;
\* the edits leave the welcome-session flag as the form showed it.
ServeOwner(r) ==
    \/ \E pk \in OwnerPks :
          \E d \in OwnerFormInputs(db.owners[pk]) :
             /\ d.attended_welcome_session =
                   db.owners[pk].attended_welcome_session
             /\ ShareOwnerUpdateView(r, Manager, "POST", pk, d)
    \/ ShareOwnerUpdateView_form_valid_save(r)
    \/ ShareOwnerUpdateView_form_valid_log(r)
    \/ ShareOwnerUpdateView_form_valid_commit(r)
    \/ \E pk \in OwnerPks :
          mark_shareowner_attended_welcome_session(r, Manager, "POST", pk)
    \/ mark_shareowner_attended_welcome_session_save(r)
    \/ mark_shareowner_attended_welcome_session_log(r)
    \/ mark_shareowner_attended_welcome_session_commit(r)
    \/ Rollback(r)
    \/ Return(r)

NextOwnerRace == \E r \in Slots : ServeOwner(r)

\* The workers serve owner edits and marks side by side.
SpecOwnerRace == InitConcurrent /\ [][NextOwnerRace]_vars

(* ------------------------------- claims ------------------------------- *)

\* The log entries of one kind that a step adds to the committed log.
Added(kind) ==
    { i \in (Len(db.log) + 1)..Len(db'.log) : db'.log[i].kind = kind }

\* A step that answers a request of handler `op` received by an idle worker.
Receives(r, op) == req[r].pc = "idle" /\ req'[r].pc # "idle" /\ req'[r].op = op

\* Nothing of the store, the sequences or the mail has changed in a step.
StoreUntouched == db' = db /\ seq' = seq /\ outbox' = outbox

\* C1: whenever a ShareOwnership leaves the committed store, the same step adds
\* exactly one DeleteShareOwnershipLogEntry holding the snapshot of the row as
\* it was stored before the removal, and a DeleteShareOwnershipLogEntry never
\* appears without its row leaving in that step: log write and removal reach
\* the store together or not at all.
C1_DeleteLoggedAtomically ==
    [][ /\ \A pk \in DOMAIN db.shares :
             pk \notin DOMAIN db'.shares =>
                /\ Cardinality(Added("DeleteShareOwnershipLogEntry")) = 1
                /\ \A i \in Added("DeleteShareOwnershipLogEntry") :
                      db'.log[i].values = freeze_share(pk, db.shares[pk])
        /\ \A i \in Added("DeleteShareOwnershipLogEntry") :
             /\ db'.log[i].values.id \in DOMAIN db.shares
             /\ db'.log[i].values.id \notin DOMAIN db'.shares ]_vars

\* C1's case: a delete has committed; its row is gone and its entry is logged.
C1_Witness ==
    \E i \in DOMAIN db.log :
        /\ db.log[i].kind = "DeleteShareOwnershipLogEntry"
        /\ db.log[i].values.id \notin DOMAIN db.shares
        /\ req[1].op = "share_ownership_delete" /\ req[1].resp = "redirect"

\* C2: a committed ShareOwnershipUpdateView edit adds no
\* UpdateShareOwnershipLogEntry when the row's frozen snapshot after the save
\* equals the one before, and exactly one, holding both snapshots, when a
\* field differs; the entry reaches the store in the step that saves the row.
C2_UpdateLoggedIffChanged ==
    [][ \A r \in Slots :
          (req[r].pc = "update_commit" /\ req'[r].pc = "done"
             /\ req'[r].resp = "redirect") =>
             LET pk     == req[r].pk
                 before == freeze_share(pk, db.shares[pk])
                 after  == freeze_share(pk, db'.shares[pk])
                 added  == Added("UpdateShareOwnershipLogEntry")
             IN  /\ db'.shares[pk] = ShareFormInstance(db.shares[pk], req[r].data)
                 /\ before = after => added = {}
                 /\ before # after =>
                       /\ Cardinality(added) = 1
                       /\ \A i \in added : /\ db'.log[i].old_frozen = before
                                           /\ db'.log[i].new_frozen = after ]_vars

\* C2's case: an edit that posts the stored values has committed, and no entry
\* was logged.
C2_Witness ==
    /\ req[1].op = "ShareOwnershipUpdateView" /\ req[1].pc = "done"
    /\ req[1].resp = "redirect"
    /\ req[1].old_frozen = freeze_share(req[1].pk, db.shares[req[1].pk])
    /\ db.log = << >>

\* C3: a request to CreateUserFromShareOwnerView for an owner that is a company
\* or has a linked user is answered at once with the guard's 403, whatever the
\* method or caller, and the step changes nothing: no TapirUser, no change to
\* the owner, no log entry re-keyed, no email.
C3_GrantRejectedWithoutEffect ==
    [][ \A r \in Slots :
          (/\ Receives(r, "CreateUserFromShareOwnerView")
           /\ req'[r].pk \in DOMAIN db.owners
           /\ \/ db.owners[req'[r].pk].is_company
              \/ db.owners[req'[r].pk].user # None) =>
             /\ req'[r].pc = "done"
             /\ req'[r].resp = (IF db.owners[req'[r].pk].user # None
                                THEN "403_has_user" ELSE "403_company")
             /\ req'[r].writes = << >>
             /\ StoreUntouched ]_vars

\* C3's case: an account was asked for a company and the request was rejected.
C3_Witness ==
    /\ req[1].op = "CreateUserFromShareOwnerView" /\ req[1].pc = "done"
    /\ req[1].resp = "403_company"
    /\ "coop.manage" \in req[1].caller
    /\ db.owners[req[1].pk].is_company

OwnerInfoBlank(row) == row.first_name = Blank /\ row.email = Blank

C6_CreateAllOrNothing ==
    [][ LET rows   == (DOMAIN db'.shares) \ (DOMAIN db.shares)
            added  == Added("CreateShareOwnershipsLogEntry")
            recaps == (Len(db.recaps) + 1)..Len(db'.recaps)
        IN  (rows # {} \/ added # {} \/ recaps # {}) =>
              \E r \in Slots :
                 LET d == req[r].data
                 IN  /\ req[r].op = "ShareOwnershipCreateMultipleView"
                     /\ Cardinality(added) = 1
                     /\ \A i \in added :
                           /\ db'.log[i].num_shares = d.num_shares
                           /\ db'.log[i].share_owner = req[r].pk
                           /\ db'.log[i].start_date = d.start_date
                           /\ db'.log[i].end_date = d.end_date
                     /\ Cardinality(rows) = d.num_shares
                     /\ \A pk \in rows :
                           db'.shares[pk] =
                              [owner |-> req[r].pk, amount_paid |-> 0,
                               start_date |-> d.start_date,
                               end_date |-> d.end_date]
                     /\ Cardinality(recaps) = 1
                     /\ \A i \in recaps :
                           /\ db'.recaps[i].member = req[r].pk
                           /\ db'.recaps[i].number_of_shares = d.num_shares ]_vars

\* C6's case: a creation of more than one share has committed.
C6_Witness ==
    /\ req[1].op = "ShareOwnershipCreateMultipleView"
    /\ req[1].pc \in {"create_email", "done"}
    /\ Len(db.recaps) = 1 /\ db.recaps[1].number_of_shares > 1
    /\ Cardinality(DOMAIN db.shares) > 2

\* C7: every notification in the outbox was sent after the mutation it
\* announces had committed: the account of a TapirAccountCreatedEmail is stored
\* and linked, and the creation of an ExtraSharesConfirmationEmail is logged.
C7_EmailOnlyAfterCommit ==
    \A i \in DOMAIN outbox :
        LET e == outbox[i]
        IN  /\ e.kind = "TapirAccountCreatedEmail" =>
                  /\ e.recipient \in DOMAIN db.users
                  /\ \E o \in DOMAIN db.owners : db.owners[o].user = e.recipient
            /\ e.kind = "ExtraSharesConfirmationEmail" =>
                  \E j \in DOMAIN db.log :
                     /\ db.log[j].kind = "CreateShareOwnershipsLogEntry"
                     /\ db.log[j].share_owner = e.recipient
                     /\ db.log[j].num_shares = e.num_shares

\* The permission each handler asks for.
RequiredPermission(op) ==
    CASE op = "share_ownership_delete" -> "coop.admin"
      [] op = "ShareOwnerUpdateView" -> "accounts.manage"
      [] OTHER -> "coop.manage"

\* The answers that tell the caller it may not do what it asked.
AuthorizationFailures == {"denied", "403_has_user", "403_company"}

\* C8: a request from a caller without the handler's permission (coop.admin
\* for the delete), unless refused for its method, is answered at once with an
\* authorization failure, and the step changes nothing of the store or mail.
C8_UnauthorizedDeniedWithoutEffect ==
    [][ \A r \in Slots :
          (/\ req[r].pc = "idle" /\ req'[r].pc # "idle"
           /\ RequiredPermission(req'[r].op) \notin req'[r].caller
           /\ req'[r].resp # "405") =>
             /\ req'[r].pc = "done"
             /\ req'[r].resp \in AuthorizationFailures
             /\ req'[r].writes = << >>
             /\ StoreUntouched ]_vars

\* C9: the step that commits mark_shareowner_attended_welcome_session stores
\* the owner with attended_welcome_session true and every other field as it
\* was, leaves the other owners alone, and adds exactly one
\* UpdateShareOwnerLogEntry whose before-snapshot is the owner as stored before
\* the change and whose after-snapshot is the owner as stored after it.
C9_MarkAttendedFrame ==
    [][ \A r \in Slots :
          (req[r].pc = "mark_commit" /\ req'[r].pc = "done"
             /\ req'[r].resp = "redirect") =>
             LET pk    == req[r].pk
                 added == Added("UpdateShareOwnerLogEntry")
             IN  /\ db'.owners =
                       [db.owners EXCEPT ![pk].attended_welcome_session = TRUE]
                 /\ db'.shares = db.shares /\ db'.users = db.users
                 /\ Len(db'.log) = Len(db.log) + 1
                 /\ Cardinality(added) = 1
                 /\ \A i \in added :
                       /\ db'.log[i].old_frozen = freeze_owner(pk, db.owners[pk])
                       /\ db'.log[i].new_frozen = freeze_owner(pk, db'.owners[pk])
                       /\ db'.log[i].share_owner = pk ]_vars

\* C9's case: the flag was already set when the call committed, and it is
\* still set.
C9_Witness ==
    /\ req[1].op = "mark_shareowner_attended_welcome_session"
    /\ req[1].pc = "done" /\ req[1].resp = "redirect"
    /\ req[1].old_frozen.attended_welcome_session
    /\ db.owners[req[1].pk].attended_welcome_session
    /\ Len(db.log) = 1

\* The filters whose method is display_name_filter.
SearchOps ==
    {"ShareOwnerFilter.display_name_filter",
     "ShareOwnerFilterWelcomeDesk.display_name_filter"}

\* C10: for a non-empty term the search returns rows, all of them in the
\* candidate set: for a term made of digits, the candidates whose id is the
\* term's number, and for any other term the candidates the name query
\* matches.
C10_SearchByIdOrName ==
    \A r \in Slots :
        (req[r].pc = "done" /\ req[r].op \in SearchOps
           /\ Len(req[r].data.value) > 0) =>
           LET queryset == req[r].data.queryset
               value    == req[r].data.value
               result   == req[r].obj
           IN  /\ result.raised = "none"
               /\ result.rows \subseteq queryset
               /\ IF isdigit(value)
                  THEN \A pk \in queryset :
                          pk \in result.rows <=>
                             (~int_raises(value) /\ pk = int(value))
                  ELSE result.rows = with_name(db, queryset, value)

Alone(f, queryset, values) ==
    FilterMethod_call(f, db, today, queryset, values[f])

Intersection(named, queryset, values) ==
    { pk \in queryset : \A f \in named : pk \in Alone(f, queryset, values).rows }

\* Two predicates split a candidate set: every candidate is in exactly one of
\* the two results.
Splits(queryset, yes, no) ==
    /\ yes.raised = "none" /\ no.raised = "none"
    /\ yes.rows \cup no.rows = queryset
    /\ yes.rows \cap no.rows = {}

\* C12: a roster query leaves the store as it is; in whatever order its
\* filters are applied, it returns the intersection of what each filter
\* returns when applied alone to the candidate set (and raises when one of
\* them raises); and has_unpaid_shares true/false, has_tapir_account
\* true/false and has_capability/not_has_capability split the candidate set
\* into two complementary, disjoint parts.
C12_FiltersComposeConjunctively ==
    [][ \A r \in Slots :
          Receives(r, "ShareOwnerFilter.qs") =>
             LET queryset == req'[r].data.queryset
                 named    == req'[r].data.named
                 values   == req'[r].data.values
                 result   == req'[r].obj
             IN  /\ StoreUntouched
                 /\ IF \E f \in named : Alone(f, queryset, values).raised # "none"
                    THEN result.raised # "none"
                    ELSE result = Rows(Intersection(named, queryset, values))
                 /\ Splits(queryset,
                           has_unpaid_shares_filter(db, queryset, "True"),
                           has_unpaid_shares_filter(db, queryset, "False"))
                 /\ Splits(queryset,
                           has_tapir_account_filter(db, queryset, "True"),
                           has_tapir_account_filter(db, queryset, "False"))
                 /\ \A value \in FilterValues("has_capability") :
                       Splits(queryset,
                              has_capability_filter(db, queryset, value),
                              not_has_capability_filter(db, queryset, value)) ]_vars

\* C12's case: a query that names has_unpaid_shares and a second filter, on a
\* candidate set both narrow, has returned one owner.
C12_Witness ==
    /\ req[1].op = "ShareOwnerFilter.qs" /\ req[1].pc = "done"
    /\ req[1].data.named = {"has_unpaid_shares", "has_tapir_account"}
    /\ req[1].data.queryset = DOMAIN db.owners
    /\ req[1].data.values["has_unpaid_shares"] = "False"
    /\ req[1].obj = Rows({2})

\* The responses of a view whose decorators or owner lookup ended the request.
TurnedAway == {"405", "denied", "404"}

\* C13: a request for the extra-shares confirmation that lacks num_shares or
\* date generates no document and changes nothing; once it is a GET of a
\* caller holding coop.manage for an existing owner, it fails with a
\* validation error.
C13_ExtraSharesNeedsParameters ==
    [][ \A r \in Slots :
          (Receives(r, "shareowner_extra_shares_confirmation")
             /\ DOMAIN req'[r].data # {"num_shares", "date"}) =>
             /\ StoreUntouched
             /\ req'[r].obj = Nil
             /\ req'[r].resp \in TurnedAway \cup {"ValidationError"}
             /\ ("coop.manage" \in req'[r].caller
                   /\ req'[r].pk \in DOMAIN db.owners /\ req'[r].resp # "405") =>
                   req'[r].resp = "ValidationError" ]_vars

\* C13's case: an authorised request with num_shares and without date has
\* failed with a validation error.
C13_Witness ==
    /\ req[1].op = "shareowner_extra_shares_confirmation" /\ req[1].pc = "done"
    /\ DOMAIN req[1].data = {"num_shares"}
    /\ req[1].resp = "ValidationError"

\* The shares of an owner whose range holds a date, both ends included.
ActiveSharesOf(pk, D) ==
    { p \in DOMAIN db.shares :
        /\ db.shares[p].owner = pk
        /\ db.shares[p].start_date <= D
        /\ (db.shares[p].end_date = None \/ db.shares[p].end_date >= D) }

\* C14: a membership confirmation that got past the decorators and the owner
\* lookup is generated whichever parameter is missing: with the caller's
\* num_shares when given and the number of the owner's shares active today
\* otherwise, and with the caller's date when given (and well-formed) and
\* today otherwise.
C14_MembershipConfirmationDefaults ==
    \A r \in Slots :
        (req[r].op = "shareowner_membership_confirmation" /\ req[r].pc = "done"
           /\ req[r].resp \notin TurnedAway
           /\ ("date" \in DOMAIN req[r].data =>
                  ~strptime_raises(req[r].data["date"]))) =>
           LET GET == req[r].data
               pdf == req[r].obj
           IN  /\ req[r].resp = "pdf"
               /\ pdf.owner = req[r].pk
               /\ IF "num_shares" \in DOMAIN GET
                  THEN pdf.num_shares = GET["num_shares"]
                  ELSE pdf.num_shares =
                          Cardinality(ActiveSharesOf(req[r].pk, today))
               /\ IF "date" \in DOMAIN GET
                  THEN pdf.date = strptime(GET["date"])
                  ELSE pdf.date = today

\* C14's case: a request without parameters for an owner with two active
\* shares got a document for two shares, dated today.
C14_Witness ==
    /\ req[1].op = "shareowner_membership_confirmation" /\ req[1].pc = "done"
    /\ DOMAIN req[1].data = {}
    /\ req[1].resp = "pdf"
    /\ req[1].obj.num_shares = Cardinality(DOMAIN db.shares)
    /\ Cardinality(DOMAIN db.shares) = 2
    /\ req[1].obj.date = today

Ended(p, end_date) == [db EXCEPT !.shares[p].end_date = end_date]

C18_OneAccountPerOwner ==
    /\ \A u \in DOMAIN db.users :
          \E pk \in DOMAIN db.owners : db.owners[pk].user = u
    /\ Cardinality(DOMAIN db.users) =
          Cardinality({ pk \in DOMAIN db.owners : db.owners[pk].user # None })

\* C19: however a welcome-session mark and an edit of the same owner
\* interleave, the step that commits the mark stores the owner as it was
\* stored before with the flag set (a committed edit is not overwritten), its
\* log entry's before-snapshot is the owner as stored just before, and the
\* step that commits an edit which did not touch the flag leaves a set flag
\* set.
C19_MarkAndEditKeepEachOther ==
    [][ \A r \in Slots :
          /\ (req[r].op = "mark_shareowner_attended_welcome_session"
                /\ req[r].pc = "mark_commit" /\ req'[r].pc = "done"
                /\ req'[r].resp = "redirect") =>
                /\ db'.owners[req[r].pk] =
                      [db.owners[req[r].pk] EXCEPT
                         !.attended_welcome_session = TRUE]
                /\ \A i \in Added("UpdateShareOwnerLogEntry") :
                      db'.log[i].old_frozen =
                         freeze_owner(req[r].pk, db.owners[req[r].pk])
          /\ (req[r].op = "ShareOwnerUpdateView"
                /\ req[r].pc = "owner_commit" /\ req'[r].pc = "done"
                /\ req'[r].resp = "redirect"
                /\ req[r].data.attended_welcome_session =
                      req[r].old_frozen.attended_welcome_session
                /\ db.owners[req[r].pk].attended_welcome_session) =>
                db'.owners[req[r].pk].attended_welcome_session ]_vars

\* C20: a caller without coop.manage gets the same authorization failure from
\* the account-grant endpoint whatever the addressed owner is: missing,
\* linked, a company or none of these.
C20_UnauthorizedGrantUniform ==
    \A r \in Slots :
        (req[r].op = "CreateUserFromShareOwnerView" /\ req[r].pc = "done"
           /\ "coop.manage" \notin req[r].caller) =>
           req[r].resp = "denied"

====
